---- MODULE Spec2Model ----
(***************************************************************************)
(* Protocol dispatch engine of bw-writer (McpServer in utils/mcp-base.js): *)
(* tool registry, per-tool rate limiters, credential validation, mock      *)
(* substitution and the two response envelope shapes.                      *)
(***************************************************************************)
EXTENDS Integers, Sequences, FiniteSets, TLC

\* ---------------------------------------------------------------- bounds
MaxTime == 2
MaxTools == 2
MaxSchemas == 1
MaxAttempts == 3
MaxCalls == 2
MaxSteps == 3
MaxText == 6

\* ------------------------------------------------------- program constants
DefaultWindowMs == 60000
DefaultMaxRequests == 10
DefaultMaxTries == 3
ToolNotFoundCode == 0 - 32601
ServerErrorCode == 0 - 32000
InvalidParamsCode == 0 - 32602

\* ------------------------------------------------------------ value sets
Undefined == "undefined"
ToolNames == {"draft_section", "create_session"}
CredVars == {"PERPLEXITY_API_KEY", "ANTHROPIC_API_KEY"}
ParamValues == {Undefined, "empty", "topic"}
RequestIds == {"7", Undefined}

\* the limiters offered to addRateLimiter (0 selects the default)
LimiterChoices ==
  { <<"draft_section", [windowMs |-> 2, maxRequests |-> 1]>>,
    <<"draft_section", [windowMs |-> 0, maxRequests |-> 2]>> }

\* a tool descriptor handed to registerTool; a field is TRUE when truthy
ToolInputs ==
  [name : ToolNames \cup {""}, handler : BOOLEAN,
   description : BOOLEAN, parameters : BOOLEAN]

\* what a tool handler can do when called: return a value or throw.
\* A returned value is described by the properties executeToolCall tests.
RetNull      == [kind |-> "return", nullish |-> TRUE,  pv |-> FALSE, err |-> FALSE, typ |-> FALSE, msg |-> FALSE, res |-> FALSE, ename |-> ""]
RetPlain     == [kind |-> "return", nullish |-> FALSE, pv |-> FALSE, err |-> FALSE, typ |-> FALSE, msg |-> FALSE, res |-> FALSE, ename |-> ""]
RetRawError  == [kind |-> "return", nullish |-> FALSE, pv |-> FALSE, err |-> FALSE, typ |-> TRUE,  msg |-> TRUE,  res |-> FALSE, ename |-> ""]
RetProtoErr  == [kind |-> "return", nullish |-> FALSE, pv |-> TRUE,  err |-> TRUE,  typ |-> FALSE, msg |-> FALSE, res |-> FALSE, ename |-> ""]
RetProtoBoth == [kind |-> "return", nullish |-> FALSE, pv |-> TRUE,  err |-> TRUE,  typ |-> FALSE, msg |-> FALSE, res |-> TRUE,  ename |-> ""]
ThrowError   == [kind |-> "throw",  nullish |-> FALSE, pv |-> FALSE, err |-> FALSE, typ |-> FALSE, msg |-> TRUE,  res |-> FALSE, ename |-> "Error"]
ThrowInvalid == [kind |-> "throw",  nullish |-> FALSE, pv |-> FALSE, err |-> FALSE, typ |-> FALSE, msg |-> TRUE,  res |-> FALSE, ename |-> "InvalidParams"]
ThrowNull    == [kind |-> "throw",  nullish |-> TRUE,  pv |-> FALSE, err |-> FALSE, typ |-> FALSE, msg |-> FALSE, res |-> FALSE, ename |-> ""]

HandlerOutcomes ==
  { RetNull, RetPlain, RetRawError, RetProtoErr, RetProtoBoth,
    ThrowError, ThrowInvalid, ThrowNull }

\* ------------------------------------------------------------- envelopes
NoResult == [src |-> "none", name |-> "", params |-> "", t |-> 0]

\* the value `undefined` where an envelope was expected
NoEnvelope ==
  [isEnvelope |-> FALSE, jsonrpc |-> FALSE, pv |-> FALSE, id |-> Undefined,
   hasResult |-> FALSE, hasError |-> FALSE, etype |-> "", ecode |-> 0,
   msg |-> "", result |-> NoResult]

formatMcpError(type, message) ==
  [isEnvelope |-> TRUE, jsonrpc |-> FALSE, pv |-> TRUE, id |-> Undefined,
   hasResult |-> FALSE, hasError |-> TRUE, etype |-> type, ecode |-> 0,
   msg |-> message, result |-> NoResult]

formatMcpResponse(result) ==
  [isEnvelope |-> TRUE, jsonrpc |-> FALSE, pv |-> TRUE, id |-> Undefined,
   hasResult |-> TRUE, hasError |-> FALSE, etype |-> "", ecode |-> 0,
   msg |-> "", result |-> result]

formatJsonRpcError(id, code, message) ==
  [isEnvelope |-> TRUE, jsonrpc |-> TRUE, pv |-> FALSE, id |-> id,
   hasResult |-> FALSE, hasError |-> TRUE, etype |-> "", ecode |-> code,
   msg |-> message, result |-> NoResult]

formatJsonRpcResponse(id, result) ==
  [isEnvelope |-> TRUE, jsonrpc |-> TRUE, pv |-> FALSE, id |-> id,
   hasResult |-> TRUE, hasError |-> FALSE, etype |-> "", ecode |-> 0,
   msg |-> "", result |-> result]

\* ------------------------------------------------------------------ state
VARIABLES
  mockMode,        \* options.mockMode
  hasGetMockData,  \* options.getMockData is set
  tools,           \* this.tools: sequence of registered descriptors
  apiKeySchemas,   \* this.apiKeySchemas: sequence of sets of required variables
  rateLimiters,    \* this.rateLimiters: tool name -> limiter options
  requestCounts,   \* the limiter closures' requestCounts[toolName:default]
  env,             \* process.env: the credential variables that are non-empty
  now,             \* Date.now()
  started,         \* server.start() has been called
  last,            \* record of the last request line processed
  accepted,        \* history: per tool, times of the calls the limiter let pass
  llm,             \* one invocation of callLLM: its locals and its outcome
  lastReg,         \* record of the last call of registerTool
  app,             \* the application's tools: CONFIG.mock, the last call, the streams
  wf,              \* one run of an executor made by createWorkflow
  ext,             \* one call of openai_handler's extraction of the payload
  th               \* one call of a handler made by createToolHandler

vars == <<mockMode, hasGetMockData, tools, apiKeySchemas, rateLimiters,
          requestCounts, env, now, started, last, accepted, llm, lastReg, app,
          wf, ext, th>>

\* the state of the dispatch engine
serverVars == <<mockMode, hasGetMockData, tools, apiKeySchemas, rateLimiters,
                requestCounts, env, now, started, last, accepted>>

\* the state outside the dispatch engine
\* the state of the framework utilities
utilVars == <<wf, ext, th>>

auxVars == <<llm, lastReg, app, wf, ext, th>>

NoLimiter == [present |-> FALSE, windowMs |-> 0, maxRequests |-> 0]

\* ------------------------------------------------------------ request lines
BuiltinNames == {"list_resources", "read_resource"}

\* the names a limiter can be attached to
LimiterNames == ToolNames \cup {"list_resources"}
RequestNames == ToolNames \cup BuiltinNames \cup {"unknown_function", Undefined}
Methods == {"initialize", "tools/list", "tools/execute", "unknown_method"}

\* One input line.  json is "invalid" (JSON.parse throws), "null" (the JSON
\* value null) or "object".  name/parameters are the top-level members,
\* pname/pparameters the members of the params object.
Line(json, jsonrpc, id, method, name, parameters, pname, pparameters) ==
  [json |-> json, jsonrpc |-> jsonrpc, id |-> id, method |-> method,
   name |-> name, parameters |-> parameters,
   pname |-> pname, pparameters |-> pparameters]

SimpleLines ==
  { Line("object", FALSE, Undefined, Undefined, np[1], np[2], Undefined, Undefined) :
      np \in { <<"draft_section", "topic">>,
               <<"create_session", Undefined>>,
               <<"unknown_function", "empty">>,
               <<"list_resources", Undefined>>,
               <<"read_resource", "empty">>, <<"read_resource", "uri:server-info">>,
               <<"read_resource", "uri:non-existent">>,
               <<Undefined, "empty">> } }

VersionedLines ==
  { Line("object", TRUE, "7", m, Undefined, Undefined, Undefined, Undefined) :
      m \in Methods }
  \cup
  { Line("object", TRUE, "7", "tools/execute", Undefined, Undefined, np[1], np[2]) :
      np \in { <<"draft_section", "topic">>,
               <<"create_session", "empty">>, <<"create_session", "topic">>,
               <<"unknown_function", "empty">>,
               <<"list_resources", "empty">> } }
  \cup
  \* a request without an id
  { Line("object", TRUE, Undefined, "tools/execute", Undefined, Undefined,
         "unknown_function", "empty") }
  \cup
  \* a versioned line that also carries a top-level name, which is ignored
  { Line("object", TRUE, "7", "tools/list", "draft_section", "topic", Undefined, Undefined) }

MalformedLines ==
  { Line("invalid", FALSE, Undefined, Undefined, Undefined, Undefined, Undefined, Undefined),
    Line("null", FALSE, Undefined, Undefined, Undefined, Undefined, Undefined, Undefined) }

Lines == SimpleLines \cup VersionedLines \cup MalformedLines

NoLine == Line("none", FALSE, Undefined, Undefined, Undefined, Undefined, Undefined, Undefined)

\* ---------------------------------------------------------------- registry
findTool(name) ==
  LET hits == { i \in 1..Len(tools) : tools[i].name = name }
  IN  IF hits = {} THEN 0
      ELSE CHOOSE i \in hits : \A j \in hits : i <= j

\* ------------------------------------------------------------ rate limiter
rateLimiterCheck_Gt(name, t) ==
  LET lim  == rateLimiters[name]
      kept == SelectSeq(requestCounts[name], LAMBDA time : t - time < lim.windowMs)
  IN  IF Len(kept) > lim.maxRequests
      THEN [exceeded |-> TRUE,  counts |-> kept]
      ELSE [exceeded |-> FALSE, counts |-> Append(kept, t)]

\* the same check without the push of the timestamp
rateLimiterCheck_NoRecord(name, t) ==
  LET lim  == rateLimiters[name]
      kept == SelectSeq(requestCounts[name], LAMBDA time : t - time < lim.windowMs)
  IN  IF Len(kept) >= lim.maxRequests
      THEN [exceeded |-> TRUE,  counts |-> kept]
      ELSE [exceeded |-> FALSE, counts |-> kept]

\* the same check without the removal of the timestamps that left the window
rateLimiterCheck_NoExpiry(name, t) ==
  LET lim  == rateLimiters[name]
      kept == requestCounts[name]
  IN  IF Len(kept) >= lim.maxRequests
      THEN [exceeded |-> TRUE,  counts |-> kept]
      ELSE [exceeded |-> FALSE, counts |-> Append(kept, t)]

\* the same check with the timestamp pushed whether or not the call passes
rateLimiterCheck_RecordRejected(name, t) ==
  LET lim  == rateLimiters[name]
      kept == SelectSeq(requestCounts[name], LAMBDA time : t - time < lim.windowMs)
  IN  IF Len(kept) >= lim.maxRequests
      THEN [exceeded |-> TRUE,  counts |-> Append(kept, t)]
      ELSE [exceeded |-> FALSE, counts |-> Append(kept, t)]

rateLimiterCheck(name, t) ==
  LET lim  == rateLimiters[name]
      kept == SelectSeq(requestCounts[name], LAMBDA time : t - time < lim.windowMs)
  IN  IF Len(kept) >= lim.maxRequests
      THEN [exceeded |-> TRUE,  counts |-> kept]
      ELSE [exceeded |-> FALSE, counts |-> Append(kept, t)]

\* ------------------------------------------------------------- credentials
validateApiKeys_Inverted ==
  IF ~mockMode THEN TRUE
  ELSE \A i \in 1..Len(apiKeySchemas) : apiKeySchemas[i] \subseteq env

validateApiKeys ==
  IF mockMode THEN TRUE
  ELSE \A i \in 1..Len(apiKeySchemas) : apiKeySchemas[i] \subseteq env

\* ------------------------------------------------------------ parsing
parseMcpRequest_NullOk(line) ==
  IF line.json \in {"invalid"}
  THEN [threw |-> TRUE, isJsonRpc |-> FALSE, id |-> Undefined,
        method |-> Undefined, name |-> Undefined, parameters |-> Undefined]
  ELSE IF line.jsonrpc
  THEN [threw |-> FALSE, isJsonRpc |-> TRUE, id |-> line.id,
        method |-> line.method, name |-> line.pname,
        parameters |-> line.pparameters]
  ELSE [threw |-> FALSE, isJsonRpc |-> FALSE, id |-> Undefined,
        method |-> Undefined, name |-> line.name,
        parameters |-> line.parameters]

parseMcpRequest(line) ==
  IF line.json \in {"invalid", "null"}
  THEN [threw |-> TRUE, isJsonRpc |-> FALSE, id |-> Undefined,
        method |-> Undefined, name |-> Undefined, parameters |-> Undefined]
  ELSE IF line.jsonrpc
  THEN [threw |-> FALSE, isJsonRpc |-> TRUE, id |-> line.id,
        method |-> line.method, name |-> line.pname,
        parameters |-> line.pparameters]
  ELSE [threw |-> FALSE, isJsonRpc |-> FALSE, id |-> Undefined,
        method |-> Undefined, name |-> line.name,
        parameters |-> line.parameters]

\* ------------------------------------------------------------ mock provider
KnownFunctions ==
  {"create_session", "draft_section", "list_resources", "read_resource"}

\* getMockData(name, parameters) evaluated at time t: what it does (an
\* outcome, as for a handler) and the value it returns
getMockData(name, parameters, t) ==
  IF name \notin KnownFunctions
  THEN [o |-> [ThrowError EXCEPT !.ename = "UnknownFunction"], value |-> NoResult]
  ELSE IF parameters = Undefined
  THEN [o |-> [ThrowError EXCEPT !.ename = "TypeError"], value |-> NoResult]
  ELSE IF name = "create_session"
  THEN [o |-> RetPlain,
        value |-> [src |-> "mock", name |-> name, params |-> parameters, t |-> t]]
  ELSE [o |-> RetPlain,
        value |-> [src |-> "mock", name |-> name, params |-> parameters, t |-> 0]]

\* the value a tool handler returns for its parameters (opaque to the server)
HandlerValue(name, parameters) ==
  [src |-> "handler", name |-> name, params |-> parameters, t |-> 0]

\* ------------------------------------------------------- built-in operations
ResourceCatalog == [src |-> "resources", name |-> "", params |-> "", t |-> 0]

\* the same handler answering in the simple shape whatever the request was
handleListResources_Simple(parameters, isJsonRpc, requestId) ==
  formatMcpResponse(ResourceCatalog)

handleListResources(parameters, isJsonRpc, requestId) ==
  IF isJsonRpc THEN formatJsonRpcResponse(requestId, ResourceCatalog)
  ELSE formatMcpResponse(ResourceCatalog)

handleReadResource(parameters, isJsonRpc, requestId) ==
  IF parameters = "uri:server-info"
  THEN LET info == [src |-> "server-info", name |-> "", params |-> "", t |-> 0]
       IN  IF isJsonRpc THEN formatJsonRpcResponse(requestId, info)
           ELSE formatMcpResponse(info)
  ELSE IF parameters = "uri:non-existent"
  THEN IF isJsonRpc THEN formatJsonRpcError(requestId, InvalidParamsCode, "Resource not found")
       ELSE formatMcpError("ResourceNotFound", "Resource not found")
  ELSE IF isJsonRpc THEN formatJsonRpcError(requestId, InvalidParamsCode, "Missing uri")
       ELSE formatMcpError("InvalidRequest", "Missing uri")

\* --------------------------------------------------------- executeToolCall
\* The result of one call: the envelope returned (or threw = TRUE when the
\* returned promise rejects), the limiter windows afterwards, and which
\* steps of the call were performed.
CallResult(resp, threw, counts, lookedUp, rateChecked, rateRejected,
           credChecked, handlerCalled, mockCalled) ==
  [resp |-> resp, threw |-> threw, counts |-> counts, lookedUp |-> lookedUp,
   rateChecked |-> rateChecked, rateRejected |-> rateRejected,
   credChecked |-> credChecked, handlerCalled |-> handlerCalled,
   mockCalled |-> mockCalled]

\* lines 489-508: what is returned for a value the handler or the mock
\* provider returned
FormatResult(o, value, isJsonRpc, requestId) ==
  IF o.nullish
  THEN IF isJsonRpc
       THEN formatJsonRpcError(requestId, ServerErrorCode, "Internal error: No response from handler")
       ELSE formatMcpError("InternalError", "No response from handler")
  ELSE IF o.pv /\ o.err
  THEN \* returned as-is: the handler's own object
       [isEnvelope |-> TRUE, jsonrpc |-> FALSE, pv |-> TRUE, id |-> Undefined,
        hasResult |-> o.res, hasError |-> TRUE,
        etype |-> "HandlerErrorType", ecode |-> 0,
        msg |-> "handler error", result |-> IF o.res THEN value ELSE NoResult]
  ELSE IF o.typ /\ o.msg
  THEN IF isJsonRpc
       THEN formatJsonRpcError(requestId, ServerErrorCode, "handler message")
       ELSE formatMcpError("HandlerType", "handler message")
  ELSE IF isJsonRpc THEN formatJsonRpcResponse(requestId, value)
       ELSE formatMcpResponse(value)

\* lines 509-521: the catch block.  Reading error.message of a thrown null
\* or undefined raises a TypeError inside the catch block, so the call rejects.
CatchBlock(o, isJsonRpc, requestId) ==
  IF o.nullish
  THEN [threw |-> TRUE, resp |-> NoEnvelope]
  ELSE IF o.ename = "InvalidParams"
  THEN [threw |-> FALSE,
        resp |-> IF isJsonRpc
                 THEN formatJsonRpcError(requestId, InvalidParamsCode, "thrown message")
                 ELSE formatMcpError("InvalidRequest", "thrown message")]
  ELSE [threw |-> FALSE,
        resp |-> IF isJsonRpc
                 THEN formatJsonRpcError(requestId, ServerErrorCode, "thrown message")
                 ELSE formatMcpError("InternalError", "thrown message")]

\* line 462: the limiter applies when one is configured, outside mock mode
rateLimited_IgnoreMock(name) ==
  rateLimiters[name].present

rateLimited(name) ==
  rateLimiters[name].present /\ ~mockMode

\* ho is what the tool's handler does if it is called
executeToolCall(name, parameters, isJsonRpc, requestId, ho) ==
  IF name = "list_resources"
  THEN CallResult(handleListResources(parameters, isJsonRpc, requestId),
                  FALSE, requestCounts, FALSE, FALSE, FALSE, FALSE, FALSE, FALSE)
  ELSE IF name = "read_resource"
  THEN CallResult(handleReadResource(parameters, isJsonRpc, requestId),
                  FALSE, requestCounts, FALSE, FALSE, FALSE, FALSE, FALSE, FALSE)
  ELSE IF findTool(name) = 0
  THEN CallResult(IF isJsonRpc
                  THEN formatJsonRpcError(requestId, ToolNotFoundCode, "Tool not found")
                  ELSE formatMcpError("UnknownFunction", "Tool not found"),
                  FALSE, requestCounts, TRUE, FALSE, FALSE, FALSE, FALSE, FALSE)
  ELSE
  LET limited == rateLimited(name)
      chk     == rateLimiterCheck(name, now)
      counts  == IF limited
                 THEN [requestCounts EXCEPT ![name] = chk.counts]
                 ELSE requestCounts
  IN
  IF limited /\ chk.exceeded
  THEN CallResult(IF isJsonRpc
                  THEN formatJsonRpcError(requestId, ServerErrorCode, "Rate limit exceeded")
                  ELSE formatMcpError("RateLimitExceeded", "Rate limit exceeded"),
                  FALSE, counts, TRUE, TRUE, TRUE, FALSE, FALSE, FALSE)
  ELSE IF ~validateApiKeys
  THEN CallResult(IF isJsonRpc
                  THEN formatJsonRpcError(requestId, InvalidParamsCode, "API key is required")
                  ELSE formatMcpError("MissingApiKey", "API key is required"),
                  FALSE, counts, TRUE, limited, FALSE, TRUE, FALSE, FALSE)
  ELSE
  LET useMock == mockMode /\ hasGetMockData
      mock    == getMockData(name, parameters, now)
      o       == IF useMock THEN mock.o ELSE ho
      value   == IF useMock THEN mock.value ELSE HandlerValue(name, parameters)
      caught  == CatchBlock(o, isJsonRpc, requestId)
  IN
  IF o.kind = "throw"
  THEN CallResult(caught.resp, caught.threw, counts, TRUE, limited, FALSE,
                  TRUE, ~useMock, useMock)
  ELSE CallResult(FormatResult(o, value, isJsonRpc, requestId), FALSE, counts,
                  TRUE, limited, FALSE, TRUE, ~useMock, useMock)

\* ------------------------------------------------------ versioned requests
NoCall(resp) ==
  CallResult(resp, FALSE, requestCounts, FALSE, FALSE, FALSE, FALSE, FALSE, FALSE)

\* the same switch without its default case
handleJsonRpcRequest_NoDefault(method, id, name, parameters, ho) ==
  IF method = "initialize"
  THEN NoCall(formatJsonRpcResponse(id, [src |-> "server", name |-> "", params |-> "", t |-> 0]))
  ELSE IF method = "tools/list"
  THEN NoCall(formatJsonRpcResponse(id, [src |-> "tools", name |-> "", params |-> "", t |-> Len(tools)]))
  ELSE IF method = "tools/execute"
  THEN IF name = Undefined
       THEN NoCall(formatJsonRpcError(id, InvalidParamsCode, "Invalid params: missing tool name"))
       ELSE IF name = "create_session" /\ parameters # "topic"
       THEN NoCall(formatJsonRpcError(id, InvalidParamsCode, "Required parameter topic is missing"))
       ELSE LET r == executeToolCall(name, parameters, TRUE, id, ho)
            IN  IF r.threw
                THEN [r EXCEPT !.resp = formatJsonRpcError(id, ServerErrorCode, "caught message")]
                ELSE r
  ELSE NoCall(NoEnvelope)

\* the same switch without the test of the tool name
handleJsonRpcRequest_NameUnchecked(method, id, name, parameters, ho) ==
  IF method = "initialize"
  THEN NoCall(formatJsonRpcResponse(id, [src |-> "server", name |-> "", params |-> "", t |-> 0]))
  ELSE IF method = "tools/list"
  THEN NoCall(formatJsonRpcResponse(id, [src |-> "tools", name |-> "", params |-> "", t |-> Len(tools)]))
  ELSE IF method = "tools/execute"
  THEN IF name = "create_session" /\ parameters # "topic"
       THEN NoCall(formatJsonRpcError(id, InvalidParamsCode, "Required parameter topic is missing"))
       ELSE LET r == executeToolCall(name, parameters, TRUE, id, ho)
            IN  IF r.threw
                THEN [r EXCEPT !.resp = formatJsonRpcError(id, ServerErrorCode, "caught message")]
                ELSE r
  ELSE NoCall(formatJsonRpcError(id, ToolNotFoundCode, "Method not found"))

handleJsonRpcRequest(method, id, name, parameters, ho) ==
  IF method = "initialize"
  THEN NoCall(formatJsonRpcResponse(id, [src |-> "server", name |-> "", params |-> "", t |-> 0]))
  ELSE IF method = "tools/list"
  THEN NoCall(formatJsonRpcResponse(id, [src |-> "tools", name |-> "", params |-> "", t |-> Len(tools)]))
  ELSE IF method = "tools/execute"
  THEN IF name = Undefined
       THEN NoCall(formatJsonRpcError(id, InvalidParamsCode, "Invalid params: missing tool name"))
       ELSE IF name = "create_session" /\ parameters # "topic"
       THEN NoCall(formatJsonRpcError(id, InvalidParamsCode, "Required parameter topic is missing"))
       ELSE LET r == executeToolCall(name, parameters, TRUE, id, ho)
            IN  IF r.threw
                THEN [r EXCEPT !.resp = formatJsonRpcError(id, ServerErrorCode, "caught message")]
                ELSE r
  ELSE NoCall(formatJsonRpcError(id, ToolNotFoundCode, "Method not found"))

\* ----------------------------------------------------------- the line loop
\* One request line, from reading it to the response written to stdout.
processLine(line, ho) ==
  LET request == parseMcpRequest(line)
  IN  IF request.threw
      THEN NoCall(formatMcpError("InvalidJSON", "Invalid JSON"))
      ELSE IF request.isJsonRpc
      THEN handleJsonRpcRequest(request.method, request.id, request.name,
                                request.parameters, ho)
      ELSE IF request.name = Undefined
      THEN NoCall(formatMcpError("InvalidRequest", "Missing name"))
      ELSE LET r == executeToolCall(request.name, request.parameters, FALSE,
                                    Undefined, ho)
           IN  IF r.threw
               THEN [r EXCEPT !.resp = formatMcpError("InternalError", "Internal error")]
               ELSE r

\* ------------------------------------------------------------------ actions
\* the environment the process is started in: one credential is not set
EnvChoices == { {"PERPLEXITY_API_KEY"} }

NoOutcome == [RetPlain EXCEPT !.kind = "none"]

NoLast ==
  [line |-> NoLine, out |-> <<>>, execThrew |-> FALSE, lookedUp |-> FALSE,
   rateChecked |-> FALSE, rateRejected |-> FALSE, credChecked |-> FALSE,
   handlerCalled |-> FALSE, mockCalled |-> FALSE, ho |-> NoOutcome,
   time |-> 0, windowsChanged |-> FALSE, prevRejected |-> FALSE]

\* ------------------------------------------------- generation invocation
\* callLLM of framework/llm-utils.js.  The presets offered: the default one
\* (provider openai), one whose provider has no transport handler, and a name
\* that is not a preset.
LlmNames == {"", "mistrallarge", "anthropic", "ppxsonarlarge"}

LLM_CONFIGS(name) ==
  IF name = "gpt4oMini" THEN [provider |-> "openai", key |-> "OPENAI_API_KEY"]
  ELSE IF name = "mistrallarge" THEN [provider |-> "mistral", key |-> "MISTRAL_API_KEY"]
  ELSE IF name = "ppxsonarlarge" THEN [provider |-> "perplexity", key |-> "PERPLEXITY_API_KEY"]
  ELSE [provider |-> Undefined, key |-> Undefined]

DEFAULT_LLM_CONFIG == "gpt4oMini"

\* a selection that finds a handler for every configuration
SupportedProviders_Any ==
  {"openai", "anthropic", "perplexity", "mistral", Undefined}

SupportedProviders == {"openai", "anthropic", "perplexity"}

\* the options object cfg: apiKey, schema and maxTries may be left out
\* (Unset stands for a maxTries that is left out)
Unset == 0 - 1

LlmOptions ==
  [apiKey : {Undefined, "sk"}, schema : {Undefined, "schema"},
   maxTries : {Unset} \cup 0..MaxAttempts]

\* readKey(keyName): the variable's value, or '' when it is not set
readKey(keyName) ==
  IF keyName \in env THEN "sk" ELSE ""

\* What one call of the transport handler does.  A handler returns null
\* (no JSON in the text), an empty object (the request failed), an object
\* that conforms to the schema or one that does not, or it throws.
TransportOutcomes ==
  { [kind |-> "throw",  obj |-> "none", nonEmpty |-> FALSE, conforms |-> FALSE],
    [kind |-> "throw",  obj |-> "credential", nonEmpty |-> FALSE, conforms |-> FALSE],
    [kind |-> "return", obj |-> "null", nonEmpty |-> FALSE, conforms |-> FALSE],
    [kind |-> "return", obj |-> "{}",   nonEmpty |-> FALSE, conforms |-> FALSE],
    [kind |-> "return", obj |-> "objA", nonEmpty |-> TRUE,  conforms |-> TRUE],
    [kind |-> "return", obj |-> "objB", nonEmpty |-> TRUE,  conforms |-> TRUE],
    [kind |-> "return", obj |-> "objX", nonEmpty |-> TRUE,  conforms |-> FALSE] }

\* the exception perplexity_handler throws when PERPLEXITY_API_KEY is not set
MissingCredentialThrow ==
  [kind |-> "throw", obj |-> "credential", nonEmpty |-> FALSE, conforms |-> FALSE]

\* What the handler of a provider can do in one call.  openai_handler lets
\* the exceptions of the client and of JSON.parse pass; perplexity_handler
\* throws only for the missing variable and turns every other failure into
\* an empty object; anthropic_handler turns a failed request into an empty
\* object (its own key test cannot fail after line 69 of callLLM).
HandlerResults(provider) ==
  IF provider = "openai" THEN TransportOutcomes \ {MissingCredentialThrow}
  ELSE IF provider = "perplexity" /\ "PERPLEXITY_API_KEY" \notin env
  THEN {MissingCredentialThrow}
  ELSE { o \in TransportOutcomes : o.kind = "return" }

NoError == [kind |-> "none", attempts |-> 0, lastErr |-> FALSE]

LlmIdle ==
  [pc |-> "idle", name |-> "", cfg |-> [apiKey |-> Undefined, schema |-> Undefined, maxTries |-> Unset],
   apiKey |-> "", schema |-> "none", maxTries |-> 0, i |-> 0, calls |-> <<>>,
   lastErr |-> FALSE, result |-> "none", error |-> NoError,
   notes |-> 0, sent |-> <<>>, waited |-> <<>>, lastErrAt |-> 0,
   lastRes |-> Undefined]

\* the same loop with one more iteration
LoopTest_OneMore(st) ==
  IF st.i <= st.maxTries THEN [st EXCEPT !.pc = "loop"]
  ELSE [st EXCEPT !.pc = "thrown",
                  !.error = [kind |-> "Failed", attempts |-> st.maxTries,
                             lastErr |-> st.lastErr]]

\* lines 88 and 102-106: the loop test; when it fails the call throws
\* "Failed after <maxTries> attempts ..."
LoopTest(st) ==
  IF st.i < st.maxTries THEN [st EXCEPT !.pc = "loop"]
  ELSE [st EXCEPT !.pc = "thrown",
                  !.error = [kind |-> "Failed", attempts |-> st.maxTries,
                             lastErr |-> st.lastErr]]

\* a resolution that never comes out empty
ResolveKey_Unchecked(explicit, keyName) ==
  "sk"

\* lines 68-69: config.apiKey || readKey(config.key)
ResolveKey(explicit, keyName) ==
  IF explicit \notin {Undefined, ""} THEN explicit ELSE readKey(keyName)

\* lines 63-88: callLLM(prompt, name, cfg) up to the first loop test
callLLM(name, cfg) ==
  /\ llm.pc = "idle"
  /\ LET config   == LLM_CONFIGS(IF name = "" THEN DEFAULT_LLM_CONFIG ELSE name)
         apiKey   == ResolveKey(cfg.apiKey, config.key)
         schema   == IF cfg.schema = Undefined THEN "default" ELSE cfg.schema
         maxTries == IF cfg.maxTries = Unset THEN DefaultMaxTries ELSE cfg.maxTries
         st       == [llm EXCEPT !.name = name, !.cfg = cfg, !.apiKey = apiKey]
     IN  llm' =
           IF apiKey = ""
           THEN [st EXCEPT !.pc = "thrown",
                           !.error = [kind |-> "NoApiKey", attempts |-> 0, lastErr |-> FALSE]]
           ELSE IF config.provider \notin SupportedProviders
           THEN [st EXCEPT !.pc = "thrown", !.schema = schema,
                           !.error = [kind |-> "UnsupportedProvider", attempts |-> 0, lastErr |-> FALSE]]
           ELSE LoopTest([st EXCEPT !.schema = schema, !.maxTries = maxTries, !.i = 0])
  /\ UNCHANGED <<serverVars, lastReg, app, utilVars>>

\* line 91 without the test of Object.keys(result).length
AcceptResult_Truthy(o) ==
  o.kind = "return" /\ o.obj # "null"

\* line 91: result && Object.keys(result).length > 0
AcceptResult(o) ==
  o.kind = "return" /\ o.nonEmpty

\* lines 88-100: one iteration of the loop: the handler is awaited and its
\* result returned, or the failure noted and the loop test made again
\* The locals the model adds to the record: sent[k] is the number of
\* corrective notes in the message list handed to the handler on attempt k
\* (messages is built once, line 77, and never pushed to, so notes stays 0),
\* waited the delays awaited between attempts (the loop awaits only the
\* handler), lastErrAt the attempt whose exception lastErr holds (line 97),
\* lastRes the variable of line 87, which is never assigned.
callLLM_attempt(o) ==
  /\ llm.pc = "loop"
  /\ o \in HandlerResults(LLM_CONFIGS(IF llm.name = "" THEN DEFAULT_LLM_CONFIG
                                       ELSE llm.name).provider)
  /\ LET st == [llm EXCEPT !.calls = Append(@, o), !.sent = Append(@, llm.notes)]
     IN  llm' =
           IF AcceptResult(o)
           THEN [st EXCEPT !.pc = "returned", !.result = o.obj]
           ELSE LoopTest([st EXCEPT !.i = @ + 1,
                                    !.lastErr = IF o.kind = "throw" THEN TRUE ELSE @,
                                    !.lastErrAt = IF o.kind = "throw" THEN llm.i + 1 ELSE @])
  /\ UNCHANGED <<serverVars, lastReg, app, utilVars>>

\* ------------------------------------------------------ application tools
\* The tool implementations of app/tools and the default tool handler of
\* application.js.  A call of the generation core, as a tool sees it: it
\* resolves with a value or with null, or it rejects.
GenOutcomes ==
  { [kind |-> "return", val |-> "json:full"],   \* JSON text with every field
    [kind |-> "return", val |-> "json:bare"],   \* JSON text of an object without the fields
    [kind |-> "return", val |-> "text"],        \* text that is not JSON
    [kind |-> "return", val |-> "object"],      \* an object, as callLLM returns
    [kind |-> "return", val |-> "null"],
    [kind |-> "throw",  val |-> "Error"],
    [kind |-> "throw",  val |-> "null"] }

NoGen == [kind |-> "none", val |-> ""]

\* the parameters of a tool call: whether parameters.parse accepts them, and
\* the draft (or outline) text they carry
ToolParams == [valid : BOOLEAN, draft : {"D1", "D2"}]

\* a line written to a stream: a serialised response envelope or other text
EnvelopeLine == "envelope"
TextLine == "text"

AppIdle(mock) ==
  [mock |-> mock, n |-> 0, op |-> "none", params |-> [valid |-> TRUE, draft |-> "D1"],
   gen |-> NoGen, status |-> "none", result |-> [kind |-> "none", of |-> ""],
   stdout |-> <<>>, stderr |-> <<>>]

\* the outcome of one call: how the promise settles, what it settles to and
\* what the call wrote to the streams
Settled(status, kind, of, out, err) ==
  [status |-> status, result |-> [kind |-> kind, of |-> of], out |-> out, err |-> err]

\* createOutline.tool.js: createOutlineImpl(params)
createOutlineImpl(params, gen) ==
  IF ~params.valid THEN Settled("rejected", "ZodError", "", <<>>, <<>>)
  ELSE IF gen.kind = "return"
  THEN Settled("resolved", "generated", gen.val, <<>>, <<>>)
  ELSE Settled("resolved", "fallback", "outline of title", <<>>, <<TextLine>>)

\* draftArticle.tool.js: draftArticleImpl(params); the catch block reads
\* error.message
draftArticleImpl(params, gen) ==
  IF ~params.valid THEN Settled("rejected", "ZodError", "", <<>>, <<>>)
  ELSE IF gen.kind = "return"
  THEN Settled("resolved", "generated", gen.val, <<>>, <<>>)
  ELSE IF gen.val = "null"
  THEN Settled("rejected", "TypeError", "", <<>>, <<TextLine>>)
  ELSE Settled("resolved", "fallback", "outline of params", <<>>, <<TextLine>>)

\* JSON.parse(response) of improveReadabilityImpl followed by the reads of
\* the fields of its result: does it throw?
ParseThrows(val) == val \in {"text", "object", "null"}

\* improveReadability.tool.js: improveReadabilityImpl(params)
improveReadabilityImpl(params, gen) ==
  IF ~params.valid THEN Settled("rejected", "ZodError", "", <<>>, <<>>)
  ELSE IF gen.kind = "throw" \/ ParseThrows(gen.val)
  THEN Settled("resolved", "fallback", params.draft, <<>>, <<TextLine>>)
  ELSE IF gen.val = "json:full"
  THEN Settled("resolved", "generated", gen.val, <<>>, <<>>)
  ELSE \* the fields are missing: improvedContent is result.improvedContent || draft
       Settled("resolved", "fallback", params.draft, <<>>, <<>>)

\* application.js: the default tool handler.  inner is what the tool (or the
\* article workflow) does when it is called.
HandlerNames == {"article_writer", "create_outline", "unknown_tool"}

defaultToolHandler(name, inner) ==
  IF app.mock
  THEN \* console.log, then getMockData, which application.js does not import
       Settled("rejected", "ReferenceError", "", <<TextLine>>, <<>>)
  ELSE IF name = "unknown_tool" \/ inner.kind = "throw"
  THEN Settled("resolved", "error", name, <<>>, <<TextLine>>)
  ELSE Settled("resolved", "generated", name, <<>>, <<>>)

\* one call of a tool implementation or of the default handler is made and
\* settles
Call(op, params, gen, r) ==
  /\ app.n < MaxCalls
  /\ app' = [app EXCEPT !.n = @ + 1, !.op = op, !.params = params, !.gen = gen,
                        !.status = r.status, !.result = r.result,
                        !.stdout = @ \o r.out, !.stderr = @ \o r.err]
  /\ UNCHANGED <<serverVars, llm, lastReg, utilVars>>

CallCreateOutline(params, gen) ==
  Call("createOutlineImpl", params, gen, createOutlineImpl(params, gen))

CallDraftArticle(params, gen) ==
  Call("draftArticleImpl", params, gen, draftArticleImpl(params, gen))

CallImproveReadability(params, gen) ==
  Call("improveReadabilityImpl", params, gen, improveReadabilityImpl(params, gen))

CallDefaultToolHandler(name, inner) ==
  Call(name, [valid |-> TRUE, draft |-> "D1"], inner, defaultToolHandler(name, inner))

\* ------------------------------------------------------------- workflows
\* createWorkflow(steps, formatter) of framework/workflow-utils: the executor
\* it returns runs the steps one after the other.  What a step function
\* does when awaited: it resolves, or it rejects with an Error, with a
\* string, or with null.
StepOutcomes == {"return", "throwError", "throwString", "throwNull"}

WfIdle ==
  [pc |-> "idle", steps |-> 0, debug |-> FALSE, formatter |-> FALSE,
   ran |-> <<>>, results |-> 0, status |-> "none", progress |-> 0,
   error |-> "none", settled |-> "none"]

\* the lines after the loop: the final status, then the results are returned
WorkflowFinish(st) ==
  [st EXCEPT !.pc = "done", !.status = "completed", !.progress = 100,
             !.settled = "resolved"]

\* the executor is called: the session is initialised and the loop entered
\* (steps is the number of entries of the steps object)
runWorkflow(steps, debug, formatter) ==
  /\ wf.pc = "idle"
  /\ wf' = [wf EXCEPT !.pc = "loop", !.steps = steps, !.debug = debug,
                      !.formatter = formatter, !.status = "initialized"]
  /\ UNCHANGED <<serverVars, llm, lastReg, app, ext, th>>

\* one iteration of the for loop: the next step in the order of
\* Object.entries is awaited; o is what it does.  results counts the step
\* results stored so far (the results object holds the session besides).
WorkflowStep(o) ==
  /\ wf.pc = "loop"
  /\ LET k  == Len(wf.ran) + 1
         st == [wf EXCEPT !.ran = Append(@, [step |-> k, outcome |-> o]),
                          !.status = "executing",
                          !.progress = ((1 + wf.results) * 100) \div wf.steps]
     IN  wf' =
           IF o = "return"
           THEN IF k = wf.steps
                THEN WorkflowFinish([st EXCEPT !.results = @ + 1])
                ELSE [st EXCEPT !.results = @ + 1]
           ELSE IF o = "throwNull"
           THEN \* error.message throws inside the catch block
                [st EXCEPT !.pc = "done", !.status = "error",
                           !.settled = "rejected"]
           ELSE IF wf.debug
           THEN [st EXCEPT !.pc = "done", !.status = "error",
                           !.error = "message", !.settled = "rejected"]
           ELSE \* break, then the lines after the loop
                WorkflowFinish([st EXCEPT !.status = "error", !.error = "message"])
  /\ UNCHANGED <<serverVars, llm, lastReg, app, ext, th>>

\* ---------------------------------------------------- payload extraction
\* extractJson and openai_handler of framework/llm-utils.js.  A text is a
\* sequence of tokens: an opening brace (with the key in front of it when it
\* is nested), a closing brace, a run of other characters, and a fence of
\* three backquotes.
Tokens == {"{", "}", "w", "fence"}

Texts == UNION { [1..n -> Tokens] : n \in 0..MaxText }

\* the value null
Null == <<>>

\* the index of the brace that closes the one opened before position i, depth
\* d braces being open there; 0 when there is none or a fence comes first
RECURSIVE ClosingBrace(_, _, _)
ClosingBrace(str, i, d) ==
  IF i > Len(str) THEN 0
  ELSE IF str[i] = "fence" THEN 0
  ELSE IF str[i] = "{" THEN ClosingBrace(str, i + 1, d + 1)
  ELSE IF str[i] = "}"
  THEN IF d = 1 THEN i ELSE ClosingBrace(str, i + 1, d - 1)
  ELSE ClosingBrace(str, i + 1, d)

\* JSON.parse(str) gives an object: str is one brace pair, closed at its end
IsObject(str) ==
  /\ Len(str) >= 2
  /\ str[1] = "{"
  /\ ClosingBrace(str, 2, 1) = Len(str)

\* lines 201-206: the parsed object, or null
tryParse(str) ==
  IF IsObject(str) THEN str ELSE Null

Least(S) == CHOOSE i \in S : \A j \in S : i <= j

\* lines 197-224: extractJson(text)
extractJson(text) ==
  LET fences  == { i \in 1..Len(text) : text[i] = "fence" }
      block   == IF Cardinality(fences) >= 2
                 THEN LET f1 == Least(fences)
                          f2 == Least(fences \ {f1})
                      IN  tryParse(SubSeq(text, f1 + 1, f2 - 1))
                 ELSE Null
      opens   == { i \in 1..Len(text) : text[i] = "{" }
      closes  == IF opens = {} THEN {}
                 ELSE { j \in 1..Len(text) : j > Least(opens) /\ text[j] = "}" }
  IN  IF text = <<>> THEN Null
      ELSE IF tryParse(text) # Null THEN tryParse(text)
      ELSE IF block # Null THEN block
      ELSE IF closes # {}
      THEN \* /\{[\s\S]*?\}/: from the first opening brace to the first
           \* closing brace after it
           tryParse(SubSeq(text, Least(opens), Least(closes)))
      ELSE Null

\* the arguments of the tool call in the response: none, the text of an
\* object, or a text JSON.parse throws on
ArgsChoices == {"none", "object", "invalid"}

ExtIdle ==
  [pc |-> "idle", args |-> "none", text |-> <<>>, from |-> "none",
   result |-> Null, threw |-> FALSE]

\* lines 129-133: openai_handler once the response is there
openai_handler(args, content) ==
  /\ ext.pc = "idle"
  /\ ext' =
       IF args = "object"
       THEN [pc |-> "done", args |-> args, text |-> content, from |-> "args",
             result |-> Null, threw |-> FALSE]
       ELSE IF args = "invalid"
       THEN [pc |-> "done", args |-> args, text |-> content, from |-> "none",
             result |-> Null, threw |-> TRUE]
       ELSE [pc |-> "done", args |-> args, text |-> content,
             from |-> IF extractJson(content) = Null THEN "none" ELSE "text",
             result |-> extractJson(content), threw |-> FALSE]
  /\ UNCHANGED <<serverVars, llm, lastReg, app, wf, th>>

\* ------------------------------------------------- tool handler wrapper
\* createToolHandler(handler, toolName, mockFn, mockMode) of
\* framework/tool-utils.js.  getMockData is left out, or a function that
\* returns, or one that throws; the wrapped handler returns, throws an Error
\* or throws null.
MockDataChoices == {"absent", "returns", "throws"}
WrappedOutcomes == {"return", "throwError", "throwNull"}

\* utils.js validateApiKeys(mockMode): TRUE, or an object with the message
validateApiKeysExported(mock) ==
  IF mock THEN TRUE ELSE CredVars \subseteq env

ThIdle ==
  [pc |-> "idle", toolName |-> "", mockMode |-> FALSE, getMockData |-> "absent",
   params |-> Undefined, bound |-> FALSE, ho |-> "none", validated |-> FALSE,
   mockUsed |-> FALSE, handlerInvoked |-> FALSE, status |-> "none",
   result |-> "none"]

\* how a call settled, and what it went through on the way
Wrapped(validated, mockUsed, handlerInvoked, status, result) ==
  [validated |-> validated, mockUsed |-> mockUsed,
   handlerInvoked |-> handlerInvoked, status |-> status, result |-> result]

\* lines 10-53: the function createToolHandler returns, called with params.
\* bound says whether the free name validateApiKeys, which tool-utils.js
\* neither defines nor imports, is bound in the global scope.
createToolHandler(toolName, mockFn, mock, params, bound, ho) ==
  IF ~bound
  THEN Wrapped(FALSE, FALSE, FALSE, "rejected", "ReferenceError")
  ELSE IF ~validateApiKeysExported(mock)
  THEN Wrapped(FALSE, FALSE, FALSE, "resolved", "error:MissingApiKey")
  ELSE IF mock /\ mockFn # "absent"
  THEN IF mockFn = "throws"
       THEN Wrapped(TRUE, TRUE, FALSE, "rejected", "thrown")
       ELSE Wrapped(TRUE, TRUE, FALSE, "resolved", "mock")
  ELSE IF toolName = "create_session" /\ params # "topic"
  THEN Wrapped(TRUE, FALSE, FALSE, "resolved", "error:InvalidRequest")
  ELSE IF ho = "return"
  THEN Wrapped(TRUE, FALSE, TRUE, "resolved", "value")
  ELSE IF ho = "throwError"
  THEN Wrapped(TRUE, FALSE, TRUE, "resolved", "error:handler")
  ELSE \* err.name throws inside the catch block
       Wrapped(TRUE, FALSE, TRUE, "rejected", "TypeError")

\* one call of a wrapped handler is made and settles
CallToolHandler(toolName, mockFn, mock, params, bound, ho) ==
  /\ th.pc = "idle"
  /\ LET r == createToolHandler(toolName, mockFn, mock, params, bound, ho)
     IN  th' = [pc |-> "done", toolName |-> toolName, mockMode |-> mock,
                getMockData |-> mockFn, params |-> params, bound |-> bound,
                ho |-> IF r.handlerInvoked THEN ho ELSE "none",
                validated |-> r.validated, mockUsed |-> r.mockUsed,
                handlerInvoked |-> r.handlerInvoked, status |-> r.status,
                result |-> r.result]
  /\ UNCHANGED <<serverVars, llm, lastReg, app, wf, ext>>

NoReg ==
  [tool |-> [name |-> "", handler |-> FALSE, description |-> FALSE, parameters |-> FALSE],
   called |-> FALSE, before |-> <<>>, after |-> <<>>]

\* what the call of registerTool for the descriptor tool did to the registry
Registration(tool, before, after) ==
  [tool |-> tool, called |-> TRUE, before |-> before, after |-> after]

\* the framework utilities before any call of them
UtilIdle ==
  /\ wf = WfIdle
  /\ ext = ExtIdle
  /\ th = ThIdle

Init ==
  /\ mockMode \in BOOLEAN
  /\ hasGetMockData \in (IF mockMode THEN BOOLEAN ELSE {TRUE})
  /\ env \in EnvChoices
  /\ tools = <<>>
  /\ apiKeySchemas = <<>>
  /\ rateLimiters = [n \in LimiterNames |-> NoLimiter]
  /\ requestCounts = [n \in LimiterNames |-> <<>>]
  /\ accepted = [n \in LimiterNames |-> <<>>]
  /\ now = 0
  /\ started = FALSE
  /\ last = NoLast
  /\ llm = LlmIdle
  /\ lastReg = NoReg
  /\ app = AppIdle(FALSE)
  /\ UtilIdle

\* line 211: the test that makes registerTool throw
InvalidToolDefinition_NoParameters(tool) ==
  tool.name = "" \/ ~tool.handler \/ ~tool.description

InvalidToolDefinition(tool) ==
  tool.name = "" \/ ~tool.handler \/ ~tool.description \/ ~tool.parameters

\* registerTool(tool): an incomplete descriptor throws and registers nothing
registerTool(tool) ==
  /\ ~started
  /\ Len(tools) < MaxTools
  /\ tools' = IF InvalidToolDefinition(tool) THEN tools ELSE Append(tools, tool)
  /\ UNCHANGED <<mockMode, hasGetMockData, apiKeySchemas, rateLimiters,
                 requestCounts, env, now, started, last, accepted>>
  /\ UNCHANGED <<llm, app, utilVars>>

\* the descriptors of a batch that are registered before registerTool throws
RECURSIVE RegisteredPrefix(_)
RegisteredPrefix(batch) ==
  IF batch = <<>> \/ InvalidToolDefinition(Head(batch)) THEN <<>>
  ELSE <<Head(batch)>> \o RegisteredPrefix(Tail(batch))

\* registerTools(batch): registerTool for each descriptor in turn, up to the
\* first one that throws
registerTools(batch) ==
  /\ ~started
  /\ Len(tools) + Len(batch) <= MaxTools
  /\ tools' = tools \o RegisteredPrefix(batch)
  /\ UNCHANGED <<mockMode, hasGetMockData, apiKeySchemas, rateLimiters,
                 requestCounts, env, now, started, last, accepted>>
  /\ UNCHANGED <<llm, app, utilVars>>

\* the batches handed to registerTools
ToolBatches == { <<a, b>> : a \in ToolInputs, b \in ToolInputs }

addApiKeyValidation(schema) ==
  /\ ~started
  /\ Len(apiKeySchemas) < MaxSchemas
  /\ apiKeySchemas' = Append(apiKeySchemas, schema)
  /\ UNCHANGED <<mockMode, hasGetMockData, tools, rateLimiters,
                 requestCounts, env, now, started, last, accepted>>
  /\ UNCHANGED auxVars

\* addRateLimiter(toolName, options): a fresh closure, so an empty window
addRateLimiter(toolName, options) ==
  /\ ~started
  /\ rateLimiters' =
       [rateLimiters EXCEPT ![toolName] =
          [present |-> TRUE,
           windowMs |-> IF options.windowMs = 0 THEN DefaultWindowMs
                        ELSE options.windowMs,
           maxRequests |-> IF options.maxRequests = 0 THEN DefaultMaxRequests
                           ELSE options.maxRequests]]
  /\ requestCounts' = [requestCounts EXCEPT ![toolName] = <<>>]
  /\ accepted' = [accepted EXCEPT ![toolName] = <<>>]
  /\ UNCHANGED <<mockMode, hasGetMockData, tools, apiKeySchemas, env, now,
                 started, last>>
  /\ UNCHANGED auxVars

\* server.start(): from here on lines are read from stdin
Start ==
  /\ ~started
  /\ started' = TRUE
  /\ UNCHANGED <<mockMode, hasGetMockData, tools, apiKeySchemas, rateLimiters,
                 requestCounts, env, now, last, accepted>>
  /\ UNCHANGED auxVars

\* one line is read, dispatched and answered; r = processLine(line, ho)
ProcessLine(line, ho, r) ==
  /\ started
  /\ LET name == parseMcpRequest(line).name
     IN  /\ requestCounts' = r.counts
         /\ accepted' = IF r.rateChecked /\ ~r.rateRejected
                        THEN [accepted EXCEPT ![name] = Append(@, now)]
                        ELSE accepted
         /\ last' = [line |-> line,
                     out |-> IF r.resp.isEnvelope THEN <<r.resp>> ELSE <<>>,
                     execThrew |-> r.threw,
                     lookedUp |-> r.lookedUp,
                     rateChecked |-> r.rateChecked,
                     rateRejected |-> r.rateRejected,
                     credChecked |-> r.credChecked,
                     handlerCalled |-> r.handlerCalled,
                     mockCalled |-> r.mockCalled,
                     ho |-> ho,
                     time |-> IF r.rateChecked \/ r.mockCalled THEN now ELSE 0,
                     windowsChanged |-> r.counts # requestCounts,
                     prevRejected |-> last.rateRejected]
  /\ UNCHANGED <<mockMode, hasGetMockData, tools, apiKeySchemas, rateLimiters,
                 env, now, started>>
  /\ UNCHANGED auxVars

\* the clock advances
Tick ==
  /\ started
  /\ now < MaxTime
  /\ now' = now + 1
  /\ UNCHANGED <<mockMode, hasGetMockData, tools, apiKeySchemas, rateLimiters,
                 requestCounts, env, started, last, accepted>>
  /\ UNCHANGED auxVars

\* the process the calls are made in: the dispatch engine is not running
LlmEnvChoices ==
  { {}, {"OPENAI_API_KEY", "MISTRAL_API_KEY"},
    {"OPENAI_API_KEY", "MISTRAL_API_KEY", "PERPLEXITY_API_KEY"} }

\* the dispatch engine as constructed, not started
ServerIdle ==
  /\ mockMode = FALSE
  /\ hasGetMockData = TRUE
  /\ tools = <<>>
  /\ apiKeySchemas = <<>>
  /\ rateLimiters = [n \in LimiterNames |-> NoLimiter]
  /\ requestCounts = [n \in LimiterNames |-> <<>>]
  /\ accepted = [n \in LimiterNames |-> <<>>]
  /\ now = 0
  /\ started = FALSE
  /\ last = NoLast
  /\ lastReg = NoReg

LlmInit ==
  /\ ServerIdle
  /\ env \in LlmEnvChoices
  /\ llm = LlmIdle
  /\ app = AppIdle(FALSE)
  /\ UtilIdle

LlmNext ==
  \/ \E name \in LlmNames : \E cfg \in LlmOptions : callLLM(name, cfg)
  \/ \E o \in TransportOutcomes : callLLM_attempt(o)

LlmSpec == LlmInit /\ [][LlmNext]_vars

Next ==
  \/ \E tool \in ToolInputs : registerTool(tool) /\ UNCHANGED lastReg
  \/ \E batch \in ToolBatches : registerTools(batch) /\ UNCHANGED lastReg
  \/ \E schema \in {CredVars} : addApiKeyValidation(schema)
  \/ \E c \in LimiterChoices : addRateLimiter(c[1], c[2])
  \/ Start
  \/ \E line \in Lines :
       \E r0 \in {processLine(line, NoOutcome)} :
         IF r0.handlerCalled
         THEN \E ho \in HandlerOutcomes :
                \E r \in {processLine(line, ho)} : ProcessLine(line, ho, r)
         ELSE ProcessLine(line, NoOutcome, r0)
  \/ Tick

Spec == Init /\ [][Next]_vars

\* --------------------------------------------------- the application alone
AppInit ==
  /\ ServerIdle
  /\ env \in EnvChoices
  /\ llm = LlmIdle
  /\ app \in { AppIdle(mock) : mock \in BOOLEAN }
  /\ UtilIdle

AppNext ==
  \/ \E params \in ToolParams : \E gen \in GenOutcomes : CallCreateOutline(params, gen)
  \/ \E params \in ToolParams : \E gen \in GenOutcomes : CallDraftArticle(params, gen)
  \/ \E params \in ToolParams : \E gen \in GenOutcomes : CallImproveReadability(params, gen)
  \/ \E name \in HandlerNames :
       \E inner \in { g \in GenOutcomes : g.val \in {"object", "Error"} } :
         CallDefaultToolHandler(name, inner)

AppSpec == AppInit /\ [][AppNext]_vars

\* ------------------------------------------------------ registration only
\* The setup phase alone, with a record of what each call of registerTool
\* did.  For a batch the record is that of the last call made: the one that
\* threw, or the last descriptor of the batch.
LastCallOfBatch(batch) ==
  LET done == RegisteredPrefix(batch)
  IN  IF Len(done) < Len(batch)
      THEN Registration(batch[Len(done) + 1], tools \o done, tools')
      ELSE Registration(batch[Len(batch)],
                        tools \o SubSeq(batch, 1, Len(batch) - 1), tools')

RegistryNext ==
  \/ \E tool \in ToolInputs :
       registerTool(tool) /\ lastReg' = Registration(tool, tools, tools')
  \/ \E batch \in ToolBatches :
       registerTools(batch) /\ lastReg' = LastCallOfBatch(batch)

RegistrySpec == Init /\ [][RegistryNext]_vars

\* ------------------------------------------- built-in operations under load
\* The dispatch engine with a tool registered under the name of a built-in
\* operation and a limiter attached to that name.
ResourceToolInputs ==
  [name : {"list_resources", "draft_section"}, handler : {TRUE},
   description : BOOLEAN, parameters : {TRUE}]

ResourceLimiterChoices ==
  { <<"list_resources", [windowMs |-> 1, maxRequests |-> 1]>>,
    <<"draft_section", [windowMs |-> 2, maxRequests |-> 1]>> }

ResourceLines ==
  { Line("object", FALSE, Undefined, Undefined, "list_resources", Undefined, Undefined, Undefined),
    Line("object", FALSE, Undefined, Undefined, "list_resources", "empty", Undefined, Undefined),
    Line("object", TRUE, "7", "tools/execute", Undefined, Undefined, "list_resources", "empty"),
    Line("object", TRUE, "7", "tools/execute", Undefined, Undefined, "list_resources", Undefined),
    Line("object", FALSE, Undefined, Undefined, "draft_section", "topic", Undefined, Undefined) }

ResourceNext ==
  \/ \E tool \in ResourceToolInputs : registerTool(tool) /\ UNCHANGED lastReg
  \/ \E schema \in {CredVars} : addApiKeyValidation(schema)
  \/ \E c \in ResourceLimiterChoices : addRateLimiter(c[1], c[2])
  \/ Start
  \/ \E line \in ResourceLines :
       \E r0 \in {processLine(line, NoOutcome)} :
         IF r0.handlerCalled
         THEN \E ho \in HandlerOutcomes :
                \E r \in {processLine(line, ho)} : ProcessLine(line, ho, r)
         ELSE ProcessLine(line, NoOutcome, r0)
  \/ Tick

ResourceSpec == Init /\ [][ResourceNext]_vars

TypeOK ==
  /\ mockMode \in BOOLEAN
  /\ now \in 0..MaxTime
  /\ Len(tools) <= MaxTools
  /\ Len(last.out) <= 1

\* ------------------------------------------------------------ vocabulary
\* a line has been processed
Processed == last.line.json # "none"

\* the request the last line parsed to
LastRequest == parseMcpRequest(last.line)

\* the envelope written for the last line
LastResponse == IF Len(last.out) >= 1 THEN last.out[1] ELSE NoEnvelope

\* the last line asked for the execution of the tool it names
IsToolCall ==
  /\ Processed
  /\ ~LastRequest.threw
  /\ LastRequest.name # Undefined
  /\ LastRequest.isJsonRpc => LastRequest.method = "tools/execute"

\* ... and the tool is in the registry and is not a built-in operation
IsRegisteredToolCall ==
  /\ IsToolCall
  /\ LastRequest.name \notin BuiltinNames
  /\ \E i \in 1..Len(tools) : tools[i].name = LastRequest.name

IsUnknownToolCall ==
  /\ IsToolCall
  /\ LastRequest.name \notin BuiltinNames
  /\ \A i \in 1..Len(tools) : tools[i].name # LastRequest.name

\* some required credential variable is absent or empty
CredentialMissing ==
  \E i \in 1..Len(apiKeySchemas) : \E v \in apiKeySchemas[i] : v \notin env

IsInternalError(e) ==
  /\ e.hasError
  /\ IF e.jsonrpc THEN e.ecode = ServerErrorCode ELSE e.etype = "InternalError"

IsMissingCredentialError(e) ==
  /\ e.hasError
  /\ e.msg = "API key is required"
  /\ IF e.jsonrpc THEN e.ecode = InvalidParamsCode ELSE e.etype = "MissingApiKey"

IsUnknownOperationError(e) ==
  /\ e.hasError
  /\ IF e.jsonrpc THEN e.ecode = ToolNotFoundCode ELSE e.etype = "UnknownFunction"

IsRateLimitError(e) ==
  /\ e.hasError
  /\ e.msg = "Rate limit exceeded"

NothingPerformed ==
  /\ ~last.lookedUp
  /\ ~last.rateChecked
  /\ ~last.credChecked
  /\ ~last.handlerCalled
  /\ ~last.mockCalled
  /\ ~last.windowsChanged

\* ------------------------------------------------------------------ claims

\* C1: for every request line read (well-formed or malformed, simple or
\* versioned) exactly one response envelope is written: never none, never two.
C1_ExactlyOneResponse ==
  Processed => Len(last.out) = 1 /\ last.out[1].isEnvelope

\* C1 witness: a versioned call whose executeToolCall rejected was answered once
C1_Witness ==
  /\ Processed
  /\ LastRequest.isJsonRpc
  /\ last.execThrew
  /\ Len(last.out) = 1

\* C2: every response envelope contains either a result or an error, never
\* both and never neither, whatever the handler or the mock provider returns.
\* The code returns a handler's {protocolVersion, error, ...} object as it is.
C2_ResultXorError ==
  Processed /\ Len(last.out) = 1 =>
    (LastResponse.hasResult /\ ~LastResponse.hasError)
    \/ (LastResponse.hasError /\ ~LastResponse.hasResult)

\* C3: the response has the envelope shape of its request: a versioned
\* request with id X gets a versioned response with id X, a simple request a
\* simple response with protocolVersion and no id, on every path.
C3_ShapeMirrored ==
  Processed /\ ~LastRequest.threw /\ Len(last.out) = 1 =>
    IF LastRequest.isJsonRpc
    THEN LastResponse.jsonrpc /\ LastResponse.id = LastRequest.id
    ELSE ~LastResponse.jsonrpc /\ LastResponse.pv /\ LastResponse.id = Undefined

\* the last line is not a request of either shape: it is not JSON, or it is
\* JSON without the jsonrpc tag and without a name
FailsEitherShape ==
  /\ Processed
  /\ \/ last.line.json \in {"invalid", "null"}
     \/ ~last.line.jsonrpc /\ last.line.name = Undefined

IsParseError(e) ==
  e.hasError /\ ~e.hasResult /\ e.etype = "InvalidJSON"

C5_UnknownTool ==
  IsUnknownToolCall =>
    /\ IsUnknownOperationError(LastResponse)
    /\ ~last.handlerCalled
    /\ ~last.mockCalled
    /\ ~last.windowsChanged

\* the calls to tool n that passed its limiter before the last call was made
PriorAccepted(n) ==
  IF last.rateChecked /\ ~last.rateRejected
  THEN SubSeq(accepted[n], 1, Len(accepted[n]) - 1)
  ELSE accepted[n]

RecentAccepted(n) ==
  { i \in 1..Len(PriorAccepted(n)) :
      last.time - PriorAccepted(n)[i] < rateLimiters[n].windowMs }

\* C6: outside mock mode a call to a registered tool with a limiter of
\* threshold N and window W is rejected with RateLimitExceeded exactly when N
\* calls already passed the limiter less than W before it; so of the calls
\* made within a span shorter than W the first N pass, every further one is
\* rejected, and no N+1 calls that passed lie within a span shorter than W.
C6_RateLimit ==
  /\ (~mockMode /\ IsRegisteredToolCall /\ last.lookedUp
        /\ rateLimiters[LastRequest.name].present) => last.rateChecked
  /\ IsRegisteredToolCall /\ last.rateChecked =>
       LET n == LastRequest.name
       IN  /\ last.rateRejected <=>
                Cardinality(RecentAccepted(n)) >= rateLimiters[n].maxRequests
           /\ last.rateRejected <=> IsRateLimitError(LastResponse)
  /\ \A n \in ToolNames :
       \A i \in 1..Len(accepted[n]) :
         LET j == i + rateLimiters[n].maxRequests
         IN  j <= Len(accepted[n]) =>
               accepted[n][j] - accepted[n][i] >= rateLimiters[n].windowMs

\* C6 witness: with N = 2 the third call of a burst was rejected
C6_Witness ==
  /\ IsRegisteredToolCall
  /\ last.rateRejected
  /\ rateLimiters[LastRequest.name].maxRequests = 2
  /\ Len(accepted[LastRequest.name]) = 2
  /\ IsRateLimitError(LastResponse)

\* the last line was a tools/execute of create_session without a topic, which
\* the versioned handler answers before executeToolCall
TopicCheckRejected ==
  /\ LastRequest.isJsonRpc
  /\ LastRequest.name = "create_session"
  /\ LastRequest.parameters # "topic"

\* the last line led to a call of executeToolCall for a registered tool
ReachedRegisteredTool ==
  IsRegisteredToolCall /\ last.lookedUp

\* C7 as stated: outside mock mode every call to a registered tool made while
\* a required credential is missing gets the missing-credential error, and
\* neither the handler nor the mock provider is invoked.  (Stated for the
\* calls that reach executeToolCall.)
C7_Original ==
  ~mockMode /\ ReachedRegisteredTool /\ CredentialMissing =>
    /\ IsMissingCredentialError(LastResponse)
    /\ ~last.handlerCalled
    /\ ~last.mockCalled

\* C7 amended: outside mock mode a request for a registered tool made while
\* a required credential is missing never reaches the handler or the mock
\* provider, and executeToolCall answers it with the missing-credential
\* error unless the tool's rate limiter rejects it first, in which case the
\* answer is the rate-limit error.
C7_MissingCredential ==
  ~mockMode /\ IsRegisteredToolCall /\ CredentialMissing =>
    /\ ~last.handlerCalled
    /\ ~last.mockCalled
    /\ LastResponse.hasError
    /\ last.lookedUp =>
         IF last.rateRejected THEN IsRateLimitError(LastResponse)
         ELSE last.credChecked /\ IsMissingCredentialError(LastResponse)

\* C7 witness: a call that passed the limiter was rejected for the credential
C7_Witness ==
  /\ ~mockMode
  /\ IsRegisteredToolCall
  /\ CredentialMissing
  /\ last.rateChecked
  /\ ~last.rateRejected
  /\ IsMissingCredentialError(LastResponse)

\* in mock mode (with a mock provider configured) a call to a registered
\* tool that carries a parameters object yields a result, never an error,
\* whatever the credentials are, and the real handler is not called ...
C8_MockResult ==
  mockMode /\ hasGetMockData /\ IsRegisteredToolCall /\ ~TopicCheckRejected
    /\ LastRequest.parameters # Undefined =>
    /\ LastResponse.hasResult
    /\ ~LastResponse.hasError
    /\ ~last.handlerCalled

\* ... and the same name and parameters always give the same result
C8_MockDeterministic ==
  (mockMode /\ hasGetMockData /\ last.mockCalled /\ last'.mockCalled
     /\ last'.line = last.line)
    => last'.out = last.out

\* C8: with mock mode enabled any registered tool can be invoked without
\* credentials and yields a deterministic result (the same name and
\* parameters always give the same result, never an error), and the real
\* handler is not called.
C8_Mock ==
  [](C8_MockResult) /\ [][C8_MockDeterministic]_vars

\* C9: in mock mode no call is rejected with RateLimitExceeded and no rate
\* window is modified, however many calls are made to a rate-limited tool.
C9_MockBypassesLimiter ==
  mockMode =>
    /\ \A n \in ToolNames : requestCounts[n] = <<>>
    /\ ~last.rateChecked
    /\ ~last.rateRejected
    /\ ~last.windowsChanged
    /\ ~IsRateLimitError(LastResponse)

\* C9 witness: in mock mode a tool with a limiter was called and answered
C9_Witness ==
  /\ mockMode
  /\ IsRegisteredToolCall
  /\ rateLimiters[LastRequest.name].present
  /\ last.mockCalled
  /\ LastResponse.hasResult

\* C10: an exception raised by a tool handler, and a handler returning
\* nothing, are answered with a generic internal-error envelope, and
\* executeToolCall never throws or rejects for a registered tool.  (An
\* exception named InvalidParams, the handlers' parameter-validation signal,
\* is left out here: the code answers it with the invalid-parameters error.)
C10_HandlerFailure ==
  ReachedRegisteredTool /\ last.ho.ename # "InvalidParams" =>
    /\ ~last.execThrew
    /\ (last.handlerCalled /\ (last.ho.kind = "throw" \/ last.ho.nullish)) =>
         IsInternalError(LastResponse)

\* ------------------------------------------------------ claims on callLLM
\* the attempt ceiling of the invocation in progress, from its options
Ceiling ==
  IF llm.cfg.maxTries = Unset THEN DefaultMaxTries ELSE llm.cfg.maxTries

\* the invocation resolved a credential and a transport handler
LoopEntered ==
  llm.pc \in {"loop", "returned"} \/ (llm.pc = "thrown" /\ llm.error.kind = "Failed")

\* a transport call that gave malformed or empty output
MalformedOrEmpty(o) == o.kind = "throw" \/ ~o.nonEmpty

AllMalformedOrEmpty ==
  \A k \in 1..Len(llm.calls) : MalformedOrEmpty(llm.calls[k])

AllEmpty ==
  \A k \in 1..Len(llm.calls) :
    llm.calls[k].kind = "return" /\ ~llm.calls[k].nonEmpty

\* C11: when the transport gives malformed or empty output the next attempt
\* is made while the ceiling allows, and when attempt k is the first to
\* yield a schema-valid object callLLM returns that object after exactly k
\* transport calls and makes none after it.
C11_FirstValidAttempt ==
  /\ \A k \in 1..Len(llm.calls) :
       (llm.calls[k].conforms /\ \A j \in 1..(k - 1) : ~llm.calls[j].conforms) =>
         /\ Len(llm.calls) = k
         /\ llm.pc = "returned"
         /\ llm.result = llm.calls[k].obj
  /\ (LoopEntered /\ AllMalformedOrEmpty /\ Len(llm.calls) < Ceiling) =>
       llm.pc = "loop"

\* C11 witness: attempt 1 gave no JSON, attempt 2 a valid object, which was
\* returned after two transport calls
C11_Witness ==
  /\ llm.pc = "returned"
  /\ Len(llm.calls) = 2
  /\ MalformedOrEmpty(llm.calls[1])
  /\ llm.calls[2].conforms
  /\ llm.result = llm.calls[2].obj

C13_ValidatedResult ==
  llm.pc = "returned" =>
    /\ llm.calls[Len(llm.calls)].conforms
    /\ llm.schema \in {"default", "schema"}

\* the options give no apiKey and the variable the preset names is not set
NoCredential ==
  /\ llm.cfg.apiKey \in {Undefined, ""}
  /\ LLM_CONFIGS(IF llm.name = "" THEN DEFAULT_LLM_CONFIG ELSE llm.name).key \notin env

\* C14: when neither an explicit apiKey nor the environment variable of the
\* configuration gives a non-empty credential, callLLM throws before any
\* transport call: zero attempts, no retry.
C14_FailFast ==
  (llm.pc # "idle" /\ NoCredential) =>
    /\ llm.pc = "thrown"
    /\ llm.error.kind = "NoApiKey"
    /\ llm.calls = <<>>
    /\ llm.i = 0

\* C14 witness: the default preset was invoked with no key set anywhere
C14_Witness ==
  /\ llm.pc = "thrown"
  /\ llm.name = ""
  /\ env = {}
  /\ NoCredential
  /\ llm.calls = <<>>

\* ------------------------------------------------ claims on the dispatcher
\* the last line asked for the built-in operation list_resources
IsListResourcesCall ==
  IsToolCall /\ LastRequest.name = "list_resources"

\* the answer to a list_resources request: the catalog, as a result
C15_CatalogReturned ==
  IsListResourcesCall =>
    /\ Len(last.out) = 1
    /\ LastResponse.hasResult
    /\ ~LastResponse.hasError
    /\ LastResponse.result = ResourceCatalog
    /\ LastResponse.jsonrpc = LastRequest.isJsonRpc
    /\ LastRequest.isJsonRpc => LastResponse.id = LastRequest.id
    /\ NothingPerformed

\* a step that processes a list_resources request changes neither the
\* registry nor the limiters nor their windows
C15_Frame ==
  (last' # last /\ last'.line.json = "object"
     /\ parseMcpRequest(last'.line).name = "list_resources")
    => /\ tools' = tools
       /\ rateLimiters' = rateLimiters
       /\ requestCounts' = requestCounts

\* C15: list_resources is handled without consulting the registry: it
\* returns the resource catalog as a result in every state, whatever tools
\* are registered (a tool of the same name included), whatever the rate
\* windows hold and whether or not credentials are set, and it leaves the
\* registry and the rate windows unchanged.
C15_ListResources ==
  [](C15_CatalogReturned) /\ [][C15_Frame]_vars

\* C15 witness: the catalog was returned outside mock mode although a tool
\* and a limiter are registered under the name list_resources, another
\* tool's window is non-empty and a credential is missing
C15_Witness ==
  /\ ~mockMode
  /\ IsListResourcesCall
  /\ LastRequest.isJsonRpc
  /\ \E i \in 1..Len(tools) : tools[i].name = "list_resources"
  /\ rateLimiters["list_resources"].present
  /\ requestCounts["draft_section"] # <<>>
  /\ CredentialMissing
  /\ LastResponse.result = ResourceCatalog

\* the last line was a versioned request
IsVersionedRequest ==
  Processed /\ ~LastRequest.threw /\ LastRequest.isJsonRpc

\* C16: routing of versioned requests by method is total: initialize and
\* tools/list return a result, tools/execute without a tool name returns the
\* invalid-params error -32602, every other method returns the
\* method-not-found error -32601 and executes no tool; each of these
\* responses is versioned and carries the id of the request.
C16_MethodRouting ==
  IsVersionedRequest =>
    LET m == LastRequest.method
        e == LastResponse
    IN  /\ m \in {"initialize", "tools/list"} =>
             /\ e.hasResult /\ ~e.hasError
             /\ e.jsonrpc /\ e.id = LastRequest.id
             /\ NothingPerformed
        /\ (m = "tools/execute" /\ LastRequest.name = Undefined) =>
             /\ e.hasError /\ ~e.hasResult /\ e.ecode = InvalidParamsCode
             /\ e.jsonrpc /\ e.id = LastRequest.id
             /\ NothingPerformed
        /\ m \notin {"initialize", "tools/list", "tools/execute"} =>
             /\ e.hasError /\ ~e.hasResult /\ e.ecode = ToolNotFoundCode
             /\ e.jsonrpc /\ e.id = LastRequest.id
             /\ NothingPerformed

\* C16 witness: tools/execute without a tool name was answered with -32602
\* on a server that has a tool registered
C16_Witness ==
  /\ IsVersionedRequest
  /\ LastRequest.method = "tools/execute"
  /\ LastRequest.name = Undefined
  /\ Len(tools) >= 1
  /\ LastResponse.ecode = InvalidParamsCode
  /\ LastResponse.id = "7"

\* a descriptor with its four fields present and non-empty
CompleteDescriptor(tool) ==
  tool.name # "" /\ tool.description /\ tool.parameters /\ tool.handler

\* C17: registerTool fails unless name, description, parameter schema and
\* handler are all present and non-empty (a field counts as present when it
\* is truthy), a failed registration leaves the registry unchanged, a
\* successful one appends the descriptor; so every tool in the registry has
\* all four fields at all times.
C17_Registration ==
  /\ \A i \in 1..Len(tools) : CompleteDescriptor(tools[i])
  /\ lastReg.called =>
       IF CompleteDescriptor(lastReg.tool)
       THEN lastReg.after = Append(lastReg.before, lastReg.tool)
       ELSE lastReg.after = lastReg.before
  /\ lastReg.called => lastReg.after = tools

\* C17 witness: a descriptor without a parameter schema was refused while
\* another tool was already registered, and the registry kept that tool
C17_Witness ==
  /\ lastReg.called
  /\ lastReg.tool.name # ""
  /\ lastReg.tool.handler
  /\ lastReg.tool.description
  /\ ~lastReg.tool.parameters
  /\ Len(lastReg.before) = 1
  /\ tools = lastReg.before

\* ------------------------------------------------ claims on the application
ToolImpls == {"createOutlineImpl", "draftArticleImpl", "improveReadabilityImpl"}

\* the generation call failed: it threw, or it returned null
GenerationFailed(gen) == gen.kind = "throw" \/ gen.val = "null"

\* C18: for valid parameters createOutlineImpl, draftArticleImpl and
\* improveReadabilityImpl never reject, whatever the generation call does
\* (returns a value, returns null, or throws); on generation failure each
\* resolves with its fallback, improveReadabilityImpl with the unmodified
\* draft as improvedContent.
C18_ToolFallback ==
  (app.op \in ToolImpls /\ app.params.valid) =>
    /\ app.status = "resolved"
    /\ GenerationFailed(app.gen) => app.result.kind = "fallback"
    /\ (app.op = "improveReadabilityImpl" /\ GenerationFailed(app.gen)) =>
         app.result.of = app.params.draft

\* C19: every line written to stdout is one complete response envelope;
\* diagnostic, debug and error text goes to stderr only, in every mode, mock
\* mode included.
C19_StdoutEnvelopesOnly ==
  /\ \A i \in 1..Len(app.stdout) : app.stdout[i] = EnvelopeLine
  /\ \A i \in 1..Len(last.out) : last.out[i].isEnvelope

\* C20: for a registered tool outside mock mode the rate window is checked
\* before the credentials: a call that exceeds the threshold is answered
\* with the rate-limit error without any credential check, also when
\* credentials are missing, and a call that passes the rate check is
\* recorded in the window even when it is then rejected for a missing
\* credential.
C20_CheckOrder ==
  (~mockMode /\ ReachedRegisteredTool) =>
    LET n == LastRequest.name
    IN  /\ rateLimiters[n].present => last.rateChecked
        /\ last.rateRejected =>
             /\ IsRateLimitError(LastResponse)
             /\ ~last.credChecked
             /\ ~last.handlerCalled
        /\ (last.rateChecked /\ ~last.rateRejected) =>
             /\ last.credChecked
             /\ requestCounts[n] # <<>>
             /\ requestCounts[n][Len(requestCounts[n])] = last.time
             /\ CredentialMissing => IsMissingCredentialError(LastResponse)

\* C20 witness: a call over the threshold, made while a credential was
\* missing, was answered with the rate-limit error
C20_Witness ==
  /\ ~mockMode
  /\ ReachedRegisteredTool
  /\ CredentialMissing
  /\ last.rateRejected
  /\ IsRateLimitError(LastResponse)
  /\ ~last.credChecked

\* the timestamps of sequence a, each as often as it occurs, are among those of b
RECURSIVE IsSubSeq(_, _)
IsSubSeq(a, b) ==
  IF a = <<>> THEN TRUE
  ELSE IF b = <<>> THEN FALSE
  ELSE IF Head(a) = Head(b) THEN IsSubSeq(Tail(a), Tail(b))
  ELSE IsSubSeq(a, Tail(b))

\* a tool's rate window holds at most maxRequests timestamps
C21_WindowBounded ==
  \A n \in LimiterNames :
    rateLimiters[n].present =>
      Len(requestCounts[n]) <= rateLimiters[n].maxRequests

\* a call rejected by the limiter adds no timestamp to any window: what the
\* windows hold afterwards was held before
C21_RejectedAddsNothing ==
  (last'.rateRejected /\ now' = now) =>
    \A n \in LimiterNames : IsSubSeq(requestCounts'[n], requestCounts[n])

\* C21: after any sequence of calls the number of timestamps a tool's rate
\* window holds never exceeds its maxRequests threshold, and a call rejected
\* by the limiter adds no timestamp to the window.
C21_WindowInvariant == [](C21_WindowBounded) /\ [][C21_RejectedAddsNothing]_vars

\* C21 witness: a window filled to its threshold of 2, and the call made
\* after that was rejected
C21_Witness ==
  /\ IsRegisteredToolCall
  /\ last.rateRejected
  /\ rateLimiters[LastRequest.name].maxRequests = 2
  /\ Len(requestCounts[LastRequest.name]) = 2

\* ------------------------------------- claims on the generation invocation
\* C22: a non-recoverable error raised inside a transport handler (the
\* missing credential detected by perplexity_handler) propagates out of
\* callLLM on the attempt where it occurs: that attempt is the last one and
\* the call has thrown; the error is not swallowed and retried.
C22_NonRecoverablePropagates ==
  \A k \in 1..Len(llm.calls) :
    llm.calls[k] = MissingCredentialThrow =>
      /\ Len(llm.calls) = k
      /\ llm.pc = "thrown"
      /\ llm.lastErrAt = k

\* C23: after each failed attempt that is followed by another attempt, the
\* message list of the next attempt is that of the failed one plus exactly
\* one corrective note, and a delay that grows with the attempt number was
\* awaited before the next attempt.
C23_CorrectiveRetry ==
  \A k \in 1..(Len(llm.calls) - 1) :
    /\ llm.sent[k + 1] = llm.sent[k] + 1
    /\ k <= Len(llm.waited)
    /\ k > 1 => llm.waited[k] > llm.waited[k - 1]

\* C24: when callLLM fails after exhausting its attempts, the failure
\* reason carries the raw response of the last attempt and the error of the
\* last failed attempt, not that of an earlier attempt and not an absent
\* value.
C24_FailureReason ==
  (llm.pc = "thrown" /\ llm.error.kind = "Failed" /\ llm.calls # <<>>) =>
    LET n == Len(llm.calls)
    IN  /\ llm.calls[n].kind = "return" => llm.lastRes = llm.calls[n].obj
        /\ llm.lastErrAt = n

\* ---------------------------------------------------- claims on the registry
\* C25: tool names are a unique key of the registry: after any sequence of
\* registerTool/registerTools calls no two registered tools share a name, so
\* findTool(name) has one candidate.
C25_UniqueNames ==
  \A i \in 1..Len(tools) : \A j \in 1..Len(tools) :
    tools[i].name = tools[j].name => i = j

\* ------------------------------------------------ claims on the rate window
\* the time from which a window at or over its threshold lets a call pass:
\* windowMs after the oldest of the maxRequests newest timestamps it holds
ReleaseTime(counts, n) ==
  counts[Len(counts) - rateLimiters[n].maxRequests + 1] + rateLimiters[n].windowMs

\* a checked call made windowMs or more after the oldest call that filled
\* the window passes, and one made windowMs or more after every earlier
\* call finds the window emptied: afterwards it holds this call alone
C26_ReleasedInTime ==
  (IsRegisteredToolCall /\ last.rateChecked) =>
    LET n == LastRequest.name
        P == PriorAccepted(n)
        N == rateLimiters[n].maxRequests
        W == rateLimiters[n].windowMs
    IN  /\ (Len(P) >= N /\ last.time - P[Len(P) - N + 1] >= W) =>
              ~last.rateRejected
        /\ (\A i \in 1..Len(P) : last.time - P[i] >= W) =>
              requestCounts[n] = <<last.time>>

\* a rejected call leaves the release time of the window as it was
C26_RejectionKeepsRelease ==
  (last'.rateRejected /\ now' = now) =>
    LET n == parseMcpRequest(last'.line).name
    IN  ReleaseTime(requestCounts'[n], n) = ReleaseTime(requestCounts[n], n)

\* C26: a tool that has reached its rate threshold accepts a call again as
\* soon as windowMs has elapsed since the oldest recorded call; rejected
\* attempts made in the meantime do not extend the lock-out, and with no
\* calls for at least windowMs the window is emptied on the next check.
C26_Recovery == [](C26_ReleasedInTime) /\ [][C26_RejectionKeepsRelease]_vars

\* C26 witness: a tool with threshold 1 took a call, rejected the next one,
\* and after windowMs took the one after that into an emptied window
C26_Witness ==
  /\ IsRegisteredToolCall
  /\ last.rateChecked /\ ~last.rateRejected
  /\ last.prevRejected
  /\ rateLimiters[LastRequest.name].maxRequests = 1
  /\ Len(accepted[LastRequest.name]) = 2
  /\ requestCounts[LastRequest.name] = <<last.time>>
  /\ last.time - accepted[LastRequest.name][1] >= rateLimiters[LastRequest.name].windowMs

\* the configuration the invocation in progress resolved
ResolvedConfig ==
  LLM_CONFIGS(IF llm.name = "" THEN DEFAULT_LLM_CONFIG ELSE llm.name)

WorkflowInit ==
  /\ ServerIdle
  /\ env \in EnvChoices
  /\ llm = LlmIdle
  /\ app = AppIdle(FALSE)
  /\ UtilIdle

WorkflowNext ==
  \/ \E steps \in 1..MaxSteps : \E debug \in BOOLEAN : \E formatter \in BOOLEAN :
       runWorkflow(steps, debug, formatter)
  \/ \E o \in StepOutcomes : WorkflowStep(o)

WorkflowSpec == WorkflowInit /\ [][WorkflowNext]_vars

ExtractNext ==
  \E args \in ArgsChoices : \E content \in Texts : openai_handler(args, content)

ExtractSpec == WorkflowInit /\ [][ExtractNext]_vars

ToolHandlerInit ==
  /\ ServerIdle
  /\ env \in {{"PERPLEXITY_API_KEY"}, CredVars}
  /\ llm = LlmIdle
  /\ app = AppIdle(FALSE)
  /\ UtilIdle

ToolHandlerNext ==
  \E toolName \in ToolNames : \E mockFn \in MockDataChoices :
    \E mock \in BOOLEAN : \E params \in ParamValues : \E bound \in BOOLEAN :
      \E ho \in WrappedOutcomes :
        CallToolHandler(toolName, mockFn, mock, params, bound, ho)

ToolHandlerSpec == ToolHandlerInit /\ [][ToolHandlerNext]_vars

\* ---------------------------------------------------- claims on workflows
\* C28: in a workflow run with debug off the steps run in declaration order,
\* and when a step throws no later step is executed and the session of the
\* results ends with status 'error', not 'completed', and records the error
\* message.
C28_WorkflowError ==
  (wf.pc = "done" /\ ~wf.debug) =>
    /\ \A k \in 1..Len(wf.ran) : wf.ran[k].step = k
    /\ \A k \in 1..Len(wf.ran) :
         wf.ran[k].outcome # "return" =>
           /\ k = Len(wf.ran)
           /\ wf.status = "error"
           /\ wf.status # "completed"
           /\ wf.error = "message"

\* ------------------------------------------ claims on payload extraction
\* the text is prose, then one object with an object nested in it, then
\* prose, and has no fence
EmbedsNestedObject(text) ==
  \E i \in 2..Len(text) : \E j \in (i + 3)..(Len(text) - 1) :
    /\ \A k \in 1..Len(text) : (k < i \/ k > j) => text[k] = "w"
    /\ IsObject(SubSeq(text, i, j))
    /\ \E k \in (i + 1)..(j - 1) : text[k] = "{"

\* C29: payload extraction follows a fixed priority (the arguments of the
\* provider's tool call, then a fenced block, then the first balanced pair
\* of braces of the raw text, else empty), so a response whose text embeds
\* one object with nested braces, surrounded by prose, yields that whole
\* object rather than empty.
C29_PayloadExtraction ==
  ext.pc = "done" =>
    /\ ext.args = "object" => ext.from = "args"
    /\ (ext.args = "none" /\ EmbedsNestedObject(ext.text)) =>
         /\ ext.result # Null
         /\ IsObject(ext.result)
         /\ Len(ext.result) >= 4

\* ------------------------------------- claims on the tool handler wrapper
\* C30: once credential validation has passed, the handler createToolHandler
\* returns never rejects; it applies, in this order, credential validation,
\* mock substitution, the topic check of create_session and the real
\* handler, so in mock mode the real handler is never invoked, and an
\* exception of the real handler becomes a well-formed error object.
C30_WrapperTotal ==
  (th.pc = "done" /\ th.validated) =>
    /\ th.status = "resolved"
    /\ th.mockMode => ~th.handlerInvoked
    /\ (~th.mockUsed /\ th.toolName = "create_session" /\ th.params # "topic") =>
         ~th.handlerInvoked /\ th.result = "error:InvalidRequest"
    /\ (th.handlerInvoked /\ th.ho # "return") => th.result = "error:handler"

====
